---- MODULE Spec2Model ----
(***************************************************************************)
(* PhotoServer (server/servidor.py): a TCP endpoint that accepts           *)
(* connections on a background thread, reads one length-prefixed payload   *)
(* per connection on a handler thread, saves it under data/<date>/ as      *)
(* <HHMMSS>.jpg, schedules a display update on the Tk main loop and        *)
(* answers "OK".                                                           *)
(*                                                                         *)
(* The state is the PhotoServer object (running, server_socket, data_dir), *)
(* the position of every thread (the accept-loop threads started by        *)
(* start_server, one handler per accepted connection, the GUI thread that  *)
(* runs stop_server and _update_display), and the environment the code     *)
(* talks to: sockets, the file system, the clock and the Tk event queue.   *)
(***************************************************************************)
EXTENDS Integers, Sequences, FiniteSets, TLC

\* ------------------------------------------------------------------ bounds
MaxStarts == 2      \* calls of start_server (each starts one accept-loop thread)
MaxStops == 1       \* calls of stop_server
MaxPayload == 2     \* longest payload a client delivers
MaxClock == 2       \* last instant of the local clock
SecsPerDay == 2     \* instants per calendar day (scaled down)

None == 0
NoSize == 0 - 1
NoPath == <<>>
Threads == 1..MaxStarts
Socks == 1..MaxStarts          \* the socket created by accept-loop thread t is t
Conns == {1, 2}                \* the client connections: two, for concurrency
PayloadBytes == {1, 2}

\* ------------------------------------------------------- pure operations
\* what _receive_all returns: None, or a bytes object
NoneValue == [isNone |-> TRUE, bytes |-> <<>>]
BytesValue(b) == [isNone |-> FALSE, bytes |-> b]

\* `not x` for such a value, as in `if not size_data:` and `if not image_data:`:
\* true of None and of b''
IsFalsy(x) == x.isNone \/ x.bytes = <<>>

\* struct.unpack('>I', size_data)[0]
Unpack(b) == ((b[1] * 256 + b[2]) * 256 + b[3]) * 256 + b[4]

\* the client's struct.pack('>I', n)
Pack(n) == << (n \div 16777216) % 256, (n \div 65536) % 256, (n \div 256) % 256, n % 256 >>

Prefix(s, k) == SubSeq(s, 1, k)
Drop(s, k) == SubSeq(s, k + 1, Len(s))
Min(a, b) == IF a < b THEN a ELSE b

\* datetime.now().strftime('%Y-%m-%d') and strftime('%H%M%S') of instant t
DateOf(t) == t \div SecsPerDay
TimeOf(t) == t % SecsPerDay

\* a write of `data` at offset 0 of a file holding `old`
Overlay(old, data) == data \o Drop(old, Min(Len(data), Len(old)))

RECURSIVE SeqsUpTo(_, _)
SeqsUpTo(S, n) ==
    IF n = 0 THEN {<<>>}
    ELSE LET shorter == SeqsUpTo(S, n - 1)
         IN  shorter \cup {Append(s, x) : s \in {q \in shorter : Len(q) = n - 1}, x \in S}

\* what a client may send: a header for a declared size, then payload bytes,
\* cut anywhere (a peer that goes away) or running past the declared size
DeclSizes == (0..MaxPayload) \cup {256}
Bodies == SeqsUpTo(PayloadBytes, MaxPayload)
Streams == {Pack(n) \o b : n \in DeclSizes, b \in Bodies}
Plans == UNION {{Prefix(f, k) : k \in 0..Len(f)} : f \in Streams}

\* ------------------------------------------------------------------ state
VARIABLES
    driver,           \* how many start_server and stop_server calls the program makes
    running,          \* self.running
    server_socket,    \* self.server_socket: None or a socket
    data_dir,         \* self.data_dir: the date directory chosen at construction
    sock,             \* state of each listening-socket object
    lpc,              \* position of each accept-loop thread (_run_server)
    acceptSock,       \* the socket an accept-loop thread is blocked on
    startCalls,       \* number of start_server calls made
    startOutcome,     \* how each start_server call ended
    stopCalls,        \* number of stop_server calls begun
    mainPc,           \* position of the GUI thread inside stop_server
    mainloop,         \* whether root.mainloop() is dispatching
    cst,              \* position of each connection and its handler thread
    plan,             \* the bytes each client sends over its connection
    consumed,         \* how many of them recv has returned
    client_socket,    \* state of the handler's client_socket
    size_data,        \* _handle_client's size_data
    data,             \* _receive_all's data
    image_size,       \* _handle_client's image_size
    filepath,         \* _save_and_display_image's filepath
    response,         \* bytes the handler has sent back
    events,           \* what each handler has done so far, in order
    files,            \* the file system under data/: path -> contents
    now,              \* the local clock
    afterQueue,       \* callbacks scheduled with root.after, in order
    executing,        \* invocations of _update_display in progress
    shown             \* invocations of _update_display made, per connection

lifecycle == <<running, server_socket, sock, lpc, acceptSock, startCalls, startOutcome,
               stopCalls, mainPc, mainloop>>
peer == <<plan, consumed>>
handler == <<client_socket, size_data, data, image_size, filepath, response, events>>
storage == <<files, now>>
sink == <<afterQueue, executing, shown>>
vars == <<driver, lifecycle, data_dir, cst, peer, handler, storage, sink>>

\* socket.listen(5)
Backlog == 5

\* -------------------------------------------------------------------- Init
\* PhotoServer.__init__ at instant t0: not running, no socket, the GUI built but its loop
\* not entered, and data_dir fixed by create_data_directory from today's date
InitServer(t0) ==
    /\ now = t0
    /\ running = FALSE
    /\ server_socket = None
    /\ data_dir = DateOf(now)
    /\ sock = [s \in Socks |-> "unused"]
    /\ lpc = [t \in Threads |-> "idle"]
    /\ acceptSock = [t \in Threads |-> None]
    /\ startCalls = 0
    /\ startOutcome = [t \in Threads |-> "none"]
    /\ stopCalls = 0
    /\ mainPc = "idle"
    /\ mainloop = FALSE
    /\ consumed = [c \in Conns |-> 0]
    /\ client_socket = [c \in Conns |-> "none"]
    /\ size_data = [c \in Conns |-> NoneValue]
    /\ data = [c \in Conns |-> <<>>]
    /\ image_size = [c \in Conns |-> NoSize]
    /\ filepath = [c \in Conns |-> NoPath]
    /\ response = [c \in Conns |-> <<>>]
    /\ events = [c \in Conns |-> <<>>]
    /\ files = <<>>
    /\ afterQueue = <<>>
    /\ executing = {}
    /\ shown = [c \in Conns |-> 0]

\* a few streams: a whole transfer, a longer one, and one cut inside its payload
FewPlans == {Pack(1) \o <<1>>, Pack(2) \o <<2, 1>>, Pack(2) \o <<2>>}

\* one start_server and up to MaxStops stop_server calls, every client with
\* one of a few streams; the server is built at the last instant of the
\* clock, so that every file is saved within one second
Init ==
    /\ InitServer(MaxClock)
    /\ driver = [starts |-> 1, stops |-> MaxStops]
    /\ cst = [c \in Conns |-> "absent"]
    /\ plan \in [Conns -> FewPlans]

\* one start_server, a single client, with any stream
InitTransfer ==
    /\ InitServer(0)
    /\ driver = [starts |-> 1, stops |-> MaxStops]
    /\ cst = [c \in Conns |-> IF c = 1 THEN "absent" ELSE "away"]
    /\ plan \in {f \in [Conns -> Plans] : \A c \in Conns : c # 1 => f[c] = <<>>}

\* any calls of start_server and stop_server, a single client
InitCalls ==
    /\ InitServer(0)
    /\ driver = [starts |-> MaxStarts, stops |-> MaxStops]
    /\ cst = [c \in Conns |-> IF c = 1 THEN "absent" ELSE "away"]
    /\ plan = [c \in Conns |-> IF c = 1 THEN Pack(1) \o <<1>> ELSE <<>>]

\* ------------------------------------------------------------ the sockets
\* a socket that owns the port: listening, or closed while a thread is still
\* blocked in accept() on it where close() does not wake that thread
OnPort(s) == sock[s] \in {"listening", "closing"}
\* a file descriptor that is still valid
FdOpen(s) == sock[s] \in {"open", "bound", "listening", "stray"}
BlockedOn(s) == {t \in Threads : lpc[t] = "blocked" /\ acceptSock[t] = s}

\* socket.close() on a listening-socket object. With a thread blocked in
\* accept() on it, the platform decides: the accept() is woken with OSError
\* (the descriptor is gone at once), or it stays blocked and the socket keeps
\* the port until that accept() returns
CloseResults(s) ==
    IF sock[s] = "closing" THEN {"closing"}
    ELSE IF sock[s] = "listening" /\ BlockedOn(s) # {} THEN {"closed", "closing"}
    ELSE {"closed"}

\* connections still in the backlog are reset when their socket goes away
ResetQueued(s2) == [c \in Conns |-> IF cst[c] = "queued" /\ ~(\E s \in Socks : s2[s] \in {"listening", "closing"})
                                   THEN "reset" ELSE cst[c]]

\* ------------------------------------------------------------ start_server
start_server ==
    /\ mainPc = "idle"
    /\ startCalls < driver.starts
    /\ startCalls' = startCalls + 1
    /\ running' = TRUE
    /\ lpc' = [lpc EXCEPT ![startCalls + 1] = "socket"]
    /\ startOutcome' = [startOutcome EXCEPT ![startCalls + 1] = "returned"]
    /\ UNCHANGED <<server_socket, sock, acceptSock, stopCalls, mainPc, mainloop>>
    /\ UNCHANGED <<driver, data_dir, cst, peer, handler, storage, sink>>

\* ------------------------------------------------------------- _run_server
ListenerOnly == <<driver, data_dir, peer, handler, storage, sink,
                  running, startCalls, startOutcome, stopCalls, mainPc, mainloop>>

\* the outer `except Exception`: print and fall out of the thread
Critical(t) == lpc' = [lpc EXCEPT ![t] = "critical"]

run_server_socket(t) ==
    /\ lpc[t] = "socket"
    /\ sock' = [sock EXCEPT ![t] = "open"]
    /\ server_socket' = t
    /\ lpc' = [lpc EXCEPT ![t] = "setsockopt"]
    /\ UNCHANGED <<acceptSock, cst, ListenerOnly>>

run_server_setsockopt(t) ==
    /\ lpc[t] = "setsockopt"
    /\ IF FdOpen(server_socket)
       THEN lpc' = [lpc EXCEPT ![t] = "bind"]
       ELSE Critical(t)
    /\ UNCHANGED <<server_socket, sock, acceptSock, cst, ListenerOnly>>

run_server_bind(t) ==
    /\ lpc[t] = "bind"
    /\ \E inUse \in BOOLEAN :
         IF sock[server_socket] = "open" /\ ~inUse /\ ~(\E s \in Socks : OnPort(s))
         THEN /\ sock' = [sock EXCEPT ![server_socket] = "bound"]
              /\ lpc' = [lpc EXCEPT ![t] = "listen"]
         ELSE /\ Critical(t)
              /\ UNCHANGED sock
    /\ UNCHANGED <<server_socket, acceptSock, cst, ListenerOnly>>

run_server_listen(t) ==
    /\ lpc[t] = "listen"
    /\ CASE sock[server_socket] = "bound" /\ ~(\E s \in Socks : OnPort(s)) ->
              /\ sock' = [sock EXCEPT ![server_socket] = "listening"]
              /\ lpc' = [lpc EXCEPT ![t] = "loop"]
         [] sock[server_socket] = "open" ->
              /\ sock' = [sock EXCEPT ![server_socket] = "stray"]
              /\ lpc' = [lpc EXCEPT ![t] = "loop"]
         [] sock[server_socket] \in {"listening", "stray"} ->
              /\ lpc' = [lpc EXCEPT ![t] = "loop"]
              /\ UNCHANGED sock
         [] OTHER ->
              /\ Critical(t)
              /\ UNCHANGED sock
    /\ UNCHANGED <<server_socket, acceptSock, cst, ListenerOnly>>

\* `while self.running:`
run_server_loop(t) ==
    /\ lpc[t] = "loop"
    /\ lpc' = [lpc EXCEPT ![t] = IF running THEN "accept" ELSE "done"]
    /\ UNCHANGED <<server_socket, sock, acceptSock, cst, ListenerOnly>>

\* (as AcceptFailed, but going round the loop again after the second message)
AcceptFailedRetry(t) == lpc' = [lpc EXCEPT ![t] = IF ~running THEN "stopped" ELSE "loop"]

\* the inner `except OSError`: one of two messages, then break
AcceptFailed(t) == lpc' = [lpc EXCEPT ![t] = IF ~running THEN "stopped" ELSE "accept_error"]

\* the call of self.server_socket.accept(): it blocks on a listening socket
run_server_accept(t) ==
    /\ lpc[t] = "accept"
    /\ IF sock[server_socket] \in {"listening", "stray"}
       THEN /\ lpc' = [lpc EXCEPT ![t] = "blocked"]
            /\ acceptSock' = [acceptSock EXCEPT ![t] = server_socket]
       ELSE /\ AcceptFailed(t)
            /\ UNCHANGED acceptSock
    /\ UNCHANGED <<server_socket, sock, cst, ListenerOnly>>

\* (as run_server_dispatch, but waiting for the handlers in progress to end
\* before the connection is taken)
run_server_dispatch_joined(t, c) ==
    /\ lpc[t] = "blocked"
    /\ OnPort(acceptSock[t])
    /\ cst[c] = "queued"
    /\ \A c2 \in Conns : cst[c2] \notin {"header", "payload", "save", "write", "after", "calling", "send", "close"}
    /\ lpc' = [lpc EXCEPT ![t] = "loop"]
    /\ acceptSock' = [acceptSock EXCEPT ![t] = None]
    /\ sock' = [sock EXCEPT ![acceptSock[t]] = IF @ = "closing" THEN "closed" ELSE @]
    /\ cst' = [cst EXCEPT ![c] = "header"]
    /\ client_socket' = [client_socket EXCEPT ![c] = "open"]
    /\ UNCHANGED <<server_socket, running, startCalls, startOutcome, stopCalls, mainPc, mainloop>>
    /\ UNCHANGED <<driver, data_dir, peer, storage, sink>>
    /\ UNCHANGED <<size_data, data, image_size, filepath, response, events>>

\* accept() returns a connection; the handler thread is started
run_server_dispatch(t, c) ==
    /\ lpc[t] = "blocked"
    /\ OnPort(acceptSock[t])
    /\ cst[c] = "queued"
    /\ lpc' = [lpc EXCEPT ![t] = "loop"]
    /\ acceptSock' = [acceptSock EXCEPT ![t] = None]
    /\ LET s == acceptSock[t]
           s2 == [sock EXCEPT ![s] = IF sock[s] = "closing" /\ BlockedOn(s) = {t}
                                     THEN "closed" ELSE sock[s]]
       IN  /\ sock' = s2
           /\ cst' = [c2 \in Conns |-> IF c2 = c THEN "header" ELSE ResetQueued(s2)[c2]]
    /\ client_socket' = [client_socket EXCEPT ![c] = "open"]
    /\ UNCHANGED <<server_socket, running, startCalls, startOutcome, stopCalls, mainPc, mainloop>>
    /\ UNCHANGED <<driver, data_dir, peer, storage, sink>>
    /\ UNCHANGED <<size_data, data, image_size, filepath, response, events>>

\* the rest of an accept() that ends in OSError
AcceptRaised(t) ==
    /\ AcceptFailed(t)
    /\ acceptSock' = [acceptSock EXCEPT ![t] = None]
    /\ LET s == acceptSock[t]
           s2 == [sock EXCEPT ![s] = IF sock[s] = "closing" /\ BlockedOn(s) = {t}
                                     THEN "closed" ELSE sock[s]]
       IN  /\ sock' = s2
           /\ cst' = ResetQueued(s2)
    /\ UNCHANGED <<server_socket, ListenerOnly>>

\* accept() raises OSError because stop_server closed the socket under it
run_server_accept_woken(t) ==
    /\ lpc[t] = "blocked"
    /\ sock[acceptSock[t]] = "closed"
    /\ AcceptRaised(t)

\* accept() raises OSError for a reason of its own (no descriptors left, ...)
run_server_accept_fault(t) ==
    /\ lpc[t] = "blocked"
    /\ sock[acceptSock[t]] # "closed"
    /\ AcceptRaised(t)

\* ------------------------------------------------------------- stop_server
MainOnly == <<driver, data_dir, peer, handler, storage, sink,
              lpc, acceptSock, startCalls, startOutcome>>

GuiBusy == \E e \in executing : e.ctx = "gui"

\* self.running = False
stop_server_flag ==
    /\ mainPc = "idle"
    /\ ~GuiBusy
    /\ stopCalls < driver.stops
    /\ stopCalls' = stopCalls + 1
    /\ running' = FALSE
    /\ mainPc' = "stop_check"
    /\ UNCHANGED <<server_socket, sock, cst, mainloop, MainOnly>>

\* `if self.server_socket:`; with no socket, straight to self.root.quit()
stop_server_check ==
    /\ mainPc = "stop_check"
    /\ IF server_socket # None
       THEN mainPc' = "stop_close" /\ UNCHANGED mainloop
       ELSE mainPc' = "idle" /\ mainloop' = FALSE
    /\ UNCHANGED <<running, server_socket, sock, cst, stopCalls, MainOnly>>

\* (as stop_server_close, but leaving out the close of the socket)
stop_server_close_skipped ==
    /\ mainPc = "stop_close"
    /\ mainPc' = "idle"
    /\ mainloop' = FALSE
    /\ UNCHANGED <<running, server_socket, sock, cst, stopCalls, MainOnly>>

\* self.server_socket.close(), then self.root.quit()
stop_server_close ==
    /\ mainPc = "stop_close"
    /\ \E r \in CloseResults(server_socket) :
         LET s2 == [sock EXCEPT ![server_socket] = r]
         IN  /\ sock' = s2
             /\ cst' = ResetQueued(s2)
    /\ mainPc' = "idle"
    /\ mainloop' = FALSE
    /\ UNCHANGED <<running, server_socket, stopCalls, MainOnly>>

\* run(): self.root.mainloop()
run_mainloop ==
    /\ mainPc = "idle"
    /\ ~mainloop
    /\ mainloop' = TRUE
    /\ UNCHANGED <<running, server_socket, sock, cst, stopCalls, mainPc, MainOnly>>

\* -------------------------------------------------------------- the clients
ClientOnly == <<driver, lifecycle, data_dir, handler, storage, sink>>

client_connect(c) ==
    /\ cst[c] = "absent"
    /\ \E s \in Socks : OnPort(s)
    /\ Cardinality({c2 \in Conns : cst[c2] = "queued"}) < Backlog
    /\ cst' = [cst EXCEPT ![c] = "queued"]
    /\ UNCHANGED <<peer, ClientOnly>>

\* ---------------------------------------------------------- _receive_all
\* (as RecvChunks, but for a recv with a buffer size of its own: any number
\* of the bytes that are to come)
RecvChunksAny(c, want) ==
    IF consumed[c] < Len(plan[c])
    THEN {SubSeq(plan[c], consumed[c] + 1, consumed[c] + k) : k \in 1..(Len(plan[c]) - consumed[c])}
    ELSE {<<>>}

\* what a sock.recv(want) may return: the next bytes of the client's stream,
\* at least one and at most `want` of them, as they arrive; b'' when the
\* client has sent all it will and closes. Until either happens it blocks.
RecvChunks(c, want) ==
    IF consumed[c] < Len(plan[c])
    THEN {SubSeq(plan[c], consumed[c] + 1, consumed[c] + k) : k \in 1..Min(want, Len(plan[c]) - consumed[c])}
    ELSE {<<>>}

\* `if not chunk:`
ChunkEmpty(chunk) == chunk = <<>>

\* (as ReceiveStep, but handing back what was read so far when the peer closes)
ReceiveStepPartial(d, chunk, size) ==
    IF ChunkEmpty(chunk) THEN [ret |-> TRUE, value |-> BytesValue(d)]
    ELSE IF Len(d \o chunk) < size THEN [ret |-> FALSE, value |-> BytesValue(d \o chunk)]
    ELSE [ret |-> TRUE, value |-> BytesValue(d \o chunk)]

\* (as ReceiveStep, but returning after the first chunk, with no retry)
ReceiveStepOnce(d, chunk, size) ==
    IF ChunkEmpty(chunk) THEN [ret |-> TRUE, value |-> NoneValue]
    ELSE [ret |-> TRUE, value |-> BytesValue(d \o chunk)]

\* one turn of the loop on a chunk: return None, loop again, or return data
ReceiveStep(d, chunk, size) ==
    IF ChunkEmpty(chunk) THEN [ret |-> TRUE, value |-> NoneValue]
    ELSE IF Len(d \o chunk) < size THEN [ret |-> FALSE, value |-> BytesValue(d \o chunk)]
    ELSE [ret |-> TRUE, value |-> BytesValue(d \o chunk)]

\* _receive_all(sock, size) when size is 0: the loop body never runs
ReceiveNothing == BytesValue(<<>>)

\* ---------------------------------------------------------- _handle_client
HandlerOnly == <<driver, lifecycle, data_dir, plan>>

Log(c, e) == events' = [events EXCEPT ![c] = Append(events[c], e)]

\* a `return` inside the try, or an exception caught by `except Exception`:
\* control goes to the `finally` block
ReturnSkippingFinally(c) == cst' = [cst EXCEPT ![c] = "done"]
Return(c) == cst' = [cst EXCEPT ![c] = "close"]

\* step 1: size_data = self._receive_all(client_socket, 4), then the unpack;
\* a declared size of 0 makes the second _receive_all return b'' at once
handle_client_recv_header(c) ==
    /\ cst[c] = "header"
    /\ \E chunk \in RecvChunks(c, 4 - Len(data[c])) :
         LET r == ReceiveStep(data[c], chunk, 4) IN
         /\ consumed' = [consumed EXCEPT ![c] = consumed[c] + Len(chunk)]
         /\ IF ~r.ret
            THEN /\ data' = [data EXCEPT ![c] = r.value.bytes]
                 /\ UNCHANGED <<cst, size_data, image_size, events>>
            ELSE /\ size_data' = [size_data EXCEPT ![c] = r.value]
                 /\ data' = [data EXCEPT ![c] = <<>>]
                 /\ IF IsFalsy(r.value) \/ Len(r.value.bytes) # 4
                    THEN \* `return`, or struct.error from unpack
                         /\ Return(c)
                         /\ UNCHANGED <<image_size, events>>
                    ELSE /\ image_size' = [image_size EXCEPT ![c] = Unpack(r.value.bytes)]
                         /\ IF Unpack(r.value.bytes) > 0
                            THEN /\ cst' = [cst EXCEPT ![c] = "payload"]
                                 /\ Log(c, "header")
                            ELSE /\ IF IsFalsy(ReceiveNothing)
                                    THEN Return(c)
                                    ELSE cst' = [cst EXCEPT ![c] = "save"]
                                 /\ events' = [events EXCEPT ![c] = events[c] \o <<"header", "payload">>]
    /\ UNCHANGED <<client_socket, filepath, response, storage, sink, HandlerOnly>>

\* step 2: image_data = self._receive_all(client_socket, image_size)
handle_client_recv_payload(c) ==
    /\ cst[c] = "payload"
    /\ \E chunk \in RecvChunks(c, image_size[c] - Len(data[c])) :
         LET r == ReceiveStep(data[c], chunk, image_size[c]) IN
         /\ consumed' = [consumed EXCEPT ![c] = consumed[c] + Len(chunk)]
         /\ IF ~r.ret
            THEN /\ data' = [data EXCEPT ![c] = r.value.bytes]
                 /\ UNCHANGED <<cst, events>>
            ELSE IF IsFalsy(r.value)
            THEN /\ Return(c)
                 /\ UNCHANGED <<data, events>>
            ELSE /\ data' = [data EXCEPT ![c] = r.value.bytes]
                 /\ cst' = [cst EXCEPT ![c] = "save"]
                 /\ Log(c, "payload")
    /\ UNCHANGED <<client_socket, size_data, image_size, filepath, response, storage, sink, HandlerOnly>>

\* ------------------------------------------------- _save_and_display_image
\* the `except Exception` of _save_and_display_image: print, return to
\* _handle_client, which goes on to step 4
SaveFailed(c, e) ==
    /\ cst' = [cst EXCEPT ![c] = "send"]
    /\ Log(c, e)

\* timestamp, filename, filepath, then open(filepath, 'wb')
handle_client_open(c) ==
    /\ cst[c] = "save"
    /\ \E t \in now..MaxClock, ok \in BOOLEAN :
         LET path == <<data_dir, TimeOf(t)>> IN
         /\ now' = t
         /\ filepath' = [filepath EXCEPT ![c] = path]
         /\ IF ok
            THEN /\ files' = [p \in DOMAIN files \cup {path} |-> IF p = path THEN <<>> ELSE files[p]]
                 /\ cst' = [cst EXCEPT ![c] = "write"]
                 /\ Log(c, "open")
            ELSE /\ SaveFailed(c, "open_failed")
                 /\ UNCHANGED files
    /\ UNCHANGED <<consumed, client_socket, size_data, data, image_size, response, sink, HandlerOnly>>

\* f.write(image_data) and the close of the `with`: all of it, or, on a
\* failure such as a full disk, only some leading part of it
handle_client_write(c) ==
    /\ cst[c] = "write"
    /\ \E k \in 0..Len(data[c]) :
         /\ files' = [files EXCEPT ![filepath[c]] = Overlay(@, Prefix(data[c], k))]
         /\ IF k = Len(data[c])
            THEN /\ cst' = [cst EXCEPT ![c] = "after"]
                 /\ Log(c, "file")
            ELSE SaveFailed(c, "write_failed")
    /\ UNCHANGED <<now, consumed, client_socket, size_data, data, image_size, filepath, response, sink, HandlerOnly>>

\* (as Schedule, but calling self._update_display(...) on the handler thread)
ScheduleDirect(c) ==
    /\ executing' = executing \cup {[ctx |-> "handler", conn |-> c]}
    /\ shown' = [shown EXCEPT ![c] = @ + 1]
    /\ UNCHANGED afterQueue

\* what self.root.after(0, self._update_display, ...) does once it runs in
\* the interpreter: the callback is queued for the main loop
Schedule(c) ==
    /\ afterQueue' = Append(afterQueue, c)
    /\ UNCHANGED <<executing, shown>>

\* the handler calls self.root.after(...). Tk runs a call made from another
\* thread on the GUI thread: with no main loop dispatching the call raises
\* RuntimeError; otherwise it is handed to the GUI thread and the handler
\* waits inside the call until the main loop has served it
handle_client_after(c) ==
    /\ cst[c] = "after"
    /\ IF mainloop
       THEN /\ cst' = [cst EXCEPT ![c] = "calling"]
            /\ UNCHANGED events
       ELSE SaveFailed(c, "after_failed")
    /\ UNCHANGED <<consumed, client_socket, size_data, data, image_size, filepath, response, storage, sink, HandlerOnly>>

\* the main loop, between two callbacks, serves the handler's call: the
\* callback is scheduled and root.after returns in the handler
root_after_served(c) ==
    /\ cst[c] = "calling"
    /\ mainloop
    /\ mainPc = "idle"
    /\ ~GuiBusy
    /\ Schedule(c)
    /\ cst' = [cst EXCEPT ![c] = "send"]
    /\ Log(c, "notify")
    /\ UNCHANGED <<consumed, client_socket, size_data, data, image_size, filepath, response, storage, HandlerOnly>>

\* step 4: client_socket.send(b"OK")
handle_client_send(c) ==
    /\ cst[c] = "send"
    /\ Return(c)
    /\ \E ok \in BOOLEAN :
         IF ok
         THEN /\ response' = [response EXCEPT ![c] = <<"O", "K">>]
              /\ Log(c, "ok")
         ELSE /\ Log(c, "send_failed")
              /\ UNCHANGED response
    /\ UNCHANGED <<consumed, client_socket, size_data, data, image_size, filepath, storage, sink, HandlerOnly>>

\* (as handle_client_close, but closing self.server_socket)
handle_client_close_listener(c) ==
    /\ cst[c] = "close"
    /\ server_socket # None
    /\ sock' = [sock EXCEPT ![server_socket] = "closed"]
    /\ cst' = [cst EXCEPT ![c] = "done"]
    /\ Log(c, "close")
    /\ UNCHANGED <<driver, running, server_socket, lpc, acceptSock, startCalls, startOutcome,
                   stopCalls, mainPc, mainloop, data_dir, plan>>
    /\ UNCHANGED <<consumed, client_socket, size_data, data, image_size, filepath, response, storage, sink>>

\* finally: client_socket.close()
handle_client_close(c) ==
    /\ cst[c] = "close"
    /\ cst' = [cst EXCEPT ![c] = "done"]
    /\ client_socket' = [client_socket EXCEPT ![c] = "closed"]
    /\ Log(c, "close")
    /\ UNCHANGED <<consumed, size_data, data, image_size, filepath, response, storage, sink, HandlerOnly>>

\* ---------------------------------------------------------- _update_display
\* the main loop takes the next scheduled callback and runs it
update_display_begin ==
    /\ mainloop
    /\ mainPc = "idle"
    /\ ~GuiBusy
    /\ afterQueue # <<>>
    /\ afterQueue' = Tail(afterQueue)
    /\ executing' = executing \cup {[ctx |-> "gui", conn |-> Head(afterQueue)]}
    /\ shown' = [shown EXCEPT ![Head(afterQueue)] = @ + 1]
    /\ UNCHANGED <<driver, lifecycle, data_dir, cst, peer, handler, storage>>

update_display_end ==
    /\ \E e \in executing :
         /\ e.ctx = "gui"
         /\ executing' = executing \ {e}
    /\ UNCHANGED <<afterQueue, shown>>
    /\ UNCHANGED <<driver, lifecycle, data_dir, cst, peer, handler, storage>>

\* -------------------------------------------------------------------- Next
Next ==
    \/ start_server
    \/ stop_server_flag
    \/ stop_server_check
    \/ stop_server_close
    \/ run_mainloop
    \/ update_display_begin
    \/ update_display_end
    \/ \E t \in Threads :
         \/ run_server_socket(t)
         \/ run_server_setsockopt(t)
         \/ run_server_bind(t)
         \/ run_server_listen(t)
         \/ run_server_loop(t)
         \/ run_server_accept(t)
         \/ run_server_accept_woken(t)
         \/ run_server_accept_fault(t)
         \/ \E c \in Conns : run_server_dispatch(t, c)
    \/ \E c \in Conns :
         \/ client_connect(c)
         \/ handle_client_recv_header(c)
         \/ handle_client_recv_payload(c)
         \/ handle_client_open(c)
         \/ handle_client_write(c)
         \/ handle_client_after(c)
         \/ root_after_served(c)
         \/ handle_client_send(c)
         \/ handle_client_close(c)

Spec == Init /\ [][Next]_vars
SpecTransfer == InitTransfer /\ [][Next]_vars
SpecCalls == InitCalls /\ [][Next]_vars

\* the steps a handler thread takes by itself once it is scheduled
HandlerStep(c) ==
    \/ handle_client_recv_header(c)
    \/ handle_client_recv_payload(c)
    \/ handle_client_open(c)
    \/ handle_client_write(c)
    \/ handle_client_after(c)
    \/ handle_client_send(c)
    \/ handle_client_close(c)

\* the steps an accept-loop thread takes by itself once it is scheduled
\* (an accept() that fails for a reason of its own is not among them)
ThreadStep(t) ==
    \/ run_server_socket(t)
    \/ run_server_setsockopt(t)
    \/ run_server_bind(t)
    \/ run_server_listen(t)
    \/ run_server_loop(t)
    \/ run_server_accept(t)
    \/ run_server_accept_woken(t)
    \/ \E c \in Conns : run_server_dispatch(t, c)

\* threads that can run do run, a stop_server that has begun completes, and
\* a main loop that is dispatching serves calls and runs callbacks; nothing
\* obliges a client to connect or the program to call root.mainloop()
Fairness ==
    /\ \A t \in Threads : WF_vars(ThreadStep(t))
    /\ WF_vars(stop_server_check)
    /\ WF_vars(stop_server_close)
    /\ \A c \in Conns : WF_vars(HandlerStep(c))
    /\ \A c \in Conns : WF_vars(root_after_served(c))
    /\ WF_vars(update_display_begin)
    /\ WF_vars(update_display_end)

\* one start_server, a single client with a whole transfer
InitOne ==
    /\ InitServer(0)
    /\ driver = [starts |-> 1, stops |-> MaxStops]
    /\ cst = [c \in Conns |-> IF c = 1 THEN "absent" ELSE "away"]
    /\ plan = [c \in Conns |-> IF c = 1 THEN Pack(1) \o <<1>> ELSE <<>>]

SpecFair == InitOne /\ [][Next]_vars /\ Fairness

\* one start_server, two clients with whole transfers of different lengths,
\* and the clock running from the instant the server is built
InitNaming ==
    /\ InitServer(0)
    /\ driver = [starts |-> 1, stops |-> MaxStops]
    /\ cst = [c \in Conns |-> "absent"]
    /\ plan = [c \in Conns |-> IF c = 1 THEN Pack(2) \o <<2, 1>> ELSE Pack(1) \o <<1>>]

SpecNaming == InitNaming /\ [][Next]_vars

\* ------------------------------------------------------------- vocabulary
Has(c, e) == \E i \in 1..Len(events[c]) : events[c][i] = e
Handling(c) == cst[c] \in {"header", "payload", "save", "write", "after", "calling", "send", "close"}
OK == <<"O", "K">>

\* the client's stream is a header followed by exactly the declared bytes
WellFormed(c) == Len(plan[c]) >= 4 /\ Unpack(Prefix(plan[c], 4)) = Len(plan[c]) - 4
Payload(c) == Drop(plan[c], 4)
\* the client goes away inside the header, or inside the declared payload
Truncated(c) == Len(plan[c]) < 4 \/ Len(plan[c]) - 4 < Unpack(Prefix(plan[c], 4))
StorageFault(c) == Has(c, "open_failed") \/ Has(c, "write_failed")
NoFault(c) == ~StorageFault(c) /\ ~Has(c, "after_failed") /\ ~Has(c, "send_failed")
Alone(c) == \A c2 \in Conns \ {c} : cst[c2] = "away"

\* ------------------------------------------------------------------ claims

\* C1: for every byte sequence P, the empty one included, a client that sends
\* len(P) as a 4-byte big-endian header and then exactly P, with no fault,
\* makes its handler write exactly one file holding P and answer "OK" before
\* it closes the connection.
C1_RoundTrip ==
    \A c \in Conns :
        (cst[c] = "done" /\ WellFormed(c) /\ NoFault(c) /\ Alone(c)) =>
            /\ DOMAIN files = {filepath[c]}
            /\ \A p \in DOMAIN files : files[p] = Payload(c)
            /\ response[c] = OK
            /\ client_socket[c] = "closed"

\* C2: "OK" is sent only on a connection whose payload was persisted: after a
\* failure to open or to write the file, the handler sends no "OK".
C2_AckOnlyIfPersisted ==
    \A c \in Conns : StorageFault(c) => response[c] = <<>> /\ ~Has(c, "ok")

\* C3: when the client goes away before the 4 header bytes, or before the
\* declared number of payload bytes, have arrived, its handler creates and
\* writes no file, schedules no display update, sends nothing, and has closed
\* the connection when it ends.
C3_TruncatedAllOrNothing ==
    \A c \in Conns :
        Truncated(c) =>
            /\ ~Has(c, "open") /\ ~Has(c, "file") /\ filepath[c] = NoPath
            /\ Alone(c) => DOMAIN files = {}
            /\ ~Has(c, "notify") /\ shown[c] = 0
            /\ \A i \in 1..Len(afterQueue) : afterQueue[i] # c
            /\ response[c] = <<>>
            /\ cst[c] \notin {"save", "write", "after", "calling", "send"}
            /\ cst[c] = "done" => client_socket[c] = "closed"

\* a handler that ended on a stream cut inside its payload
C3_Witness ==
    \E c \in Conns :
        /\ Truncated(c) /\ Len(plan[c]) > 4
        /\ cst[c] = "done" /\ consumed[c] = Len(plan[c])
        /\ Has(c, "header") /\ client_socket[c] = "closed"

\* C4: however _handle_client ends (incomplete header, incomplete payload,
\* storage failure, failure to send, success), its connection is closed once
\* it has ended; the connection is open exactly while the handler runs.
C4_AlwaysClosed ==
    \A c \in Conns :
        /\ cst[c] = "done" => client_socket[c] = "closed"
        /\ Handling(c) <=> client_socket[c] = "open"

\* two ended handlers: one on a cut stream, one after a storage failure and
\* a failed send
C4_Witness ==
    \E c1, c2 \in Conns :
        /\ cst[c1] = "done" /\ Truncated(c1) /\ client_socket[c1] = "closed"
        /\ cst[c2] = "done" /\ StorageFault(c2) /\ Has(c2, "send_failed")
        /\ client_socket[c2] = "closed"

\* the protocol steps a handler has completed, in the order it completed them
StepNames == {"header", "payload", "file", "notify", "ok"}
StepOrder == <<"header", "payload", "file", "notify", "ok">>
Steps(c) == SelectSeq(events[c], LAMBDA e : e \in StepNames)

\* C5: within one connection the steps come in a strict order (header read,
\* payload read, file written, display update scheduled, "OK" sent) and none
\* happens unless every earlier one has completed.
C5_StrictOrder ==
    \A c \in Conns : Steps(c) = Prefix(StepOrder, Len(Steps(c)))

InQueue(c) == \E i \in 1..Len(afterQueue) : afterQueue[i] = c
TimesQueued(c) == Cardinality({i \in 1..Len(afterQueue) : afterQueue[i] = c})

\* C6: with any number of handlers running, _update_display never runs for
\* two notifications at once, runs only on the GUI thread, is invoked at most
\* once per persisted payload and never for a payload that was not persisted.
C6_SinkSerialized ==
    /\ Cardinality(executing) <= 1
    /\ \A e \in executing : e.ctx = "gui"
    /\ \A c \in Conns :
         /\ shown[c] + TimesQueued(c) <= 1
         /\ (shown[c] > 0 \/ InQueue(c) \/ (\E e \in executing : e.conn = c)) =>
                Has(c, "file") /\ ~StorageFault(c)

\* one notification being displayed while another handler's waits its turn
C6_Witness ==
    \E c1, c2 \in Conns :
        /\ c1 # c2
        /\ executing = {[ctx |-> "gui", conn |-> c1]}
        /\ afterQueue = <<c2>>
        /\ Handling(c2)

\* all there is to one connection and its handler
ConnState(c) == <<cst[c], consumed[c], client_socket[c], size_data[c], data[c],
                  image_size[c], filepath[c], response[c], events[c]>>

\* C7: a failure in one connection's handler never ends the accept loop and
\* never changes what happens on another connection: a handler's step leaves
\* the listener and every other connection as they were, the accept loop ends
\* only by a stop, a startup failure or a failed accept, and a well-formed
\* transfer that meets no fault of its own is saved and acknowledged.
C7_Contained ==
    /\ [][\A c \in Conns :
            (Handling(c) /\ (cst'[c] # cst[c] \/ consumed'[c] # consumed[c])) =>
                /\ lifecycle' = lifecycle
                /\ \A c2 \in Conns \ {c} : ConnState(c2)' = ConnState(c2)]_vars
    /\ [](stopCalls = 0 => \A t \in Threads : lpc[t] \notin {"done", "stopped"})
    /\ [](\A c \in Conns :
            (cst[c] = "done" /\ WellFormed(c) /\ Payload(c) # <<>> /\ NoFault(c)) =>
                Has(c, "file") /\ response[c] = OK)

\* one handler has failed, the other's transfer is saved and acknowledged,
\* and the accept loop is still blocked in accept()
C7_Witness ==
    \E c1, c2 \in Conns :
        /\ cst[c1] = "done" /\ (Truncated(c1) \/ StorageFault(c1) \/ Has(c1, "send_failed"))
        /\ cst[c2] = "done" /\ Has(c2, "file") /\ response[c2] = OK
        /\ running /\ lpc[1] = "blocked" /\ sock[acceptSock[1]] = "listening"

\* C8: once stop_server has been called on an instance that was started,
\* nothing brings it back to Running: the running flag stays false and no
\* further accept loop is started.
C8_StoppedIsTerminal ==
    [][(startCalls >= 1 /\ stopCalls >= 1 /\ mainPc = "idle") =>
            (~running' /\ startCalls' = startCalls)]_vars

\* C9: once stop_server has been called after start_server, the accept-loop
\* thread eventually ends, wherever the call met it.
C9_ShutdownTerminates ==
    (startCalls >= 1 /\ stopCalls >= 1 /\ ~running) ~>
        (lpc[1] \in {"done", "stopped", "accept_error", "critical"})

\* C10: when the listening socket could not be set up, start_server does not
\* return normally leaving the instance marked running.
C10_StartupFailureReported ==
    \A t \in Threads :
        (lpc[t] = "critical" /\ stopCalls = 0) => ~(startOutcome[t] = "returned" /\ running)

\* an accept-loop thread that was never started or has fallen out of _run_server
Ended(t) == lpc[t] \in {"idle", "done", "stopped", "accept_error", "critical"}
\* stop_server, called after start_server, has returned
Stopped == startCalls >= 1 /\ stopCalls >= 1 /\ ~running /\ mainPc = "idle"

\* C11: once stop_server has returned and the accept-loop thread has ended,
\* no listening socket this instance created is still open, wherever
\* stop_server met the thread (also before it assigned self.server_socket).
C11_ListenerClosed ==
    (Stopped /\ \A t \in Threads : Ended(t)) =>
        \A s \in Socks : sock[s] \notin {"bound", "listening", "stray", "closing"}

\* the first, and the second, call of _receive_all in a handler has returned
HeaderReturned(c) == cst[c] \in {"payload", "save", "write", "after", "calling", "send", "close", "done"}
PayloadReturned(c) == image_size[c] # NoSize /\ cst[c] # "payload"
\* the bytes the client sends after its header, the first n of them
Body(c, n) == SubSeq(plan[c], 5, 4 + n)

\* C12: _receive_all(sock, n), for every n >= 0 and every split of the stream
\* into chunks: when n bytes arrive it returns exactly the first n bytes in
\* order (for n = 0 the empty bytes, with no recv issued); when a recv
\* returns b'' before that it returns None, never the part it has read.
C12_ReceiveAllExact ==
    \A c \in Conns :
        /\ cst[c] = "header" =>
              Len(data[c]) < 4 /\ data[c] = Prefix(plan[c], Len(data[c]))
        /\ HeaderReturned(c) =>
              size_data[c] = IF Len(plan[c]) >= 4 THEN BytesValue(Prefix(plan[c], 4))
                                                  ELSE NoneValue
        /\ cst[c] = "payload" =>
              Len(data[c]) < image_size[c] /\ data[c] = Body(c, Len(data[c]))
        /\ PayloadReturned(c) =>
              IF Len(plan[c]) - 4 >= image_size[c]
              THEN /\ Has(c, "payload")
                   /\ data[c] = Body(c, image_size[c])
                   /\ image_size[c] = 0 => consumed[c] = 4
              ELSE /\ ~Has(c, "payload")
                   /\ cst[c] \in {"close", "done"}

\* both calls have returned their bytes, the second one the longest payload
C12_Witness ==
    \E c \in Conns :
        /\ Has(c, "payload") /\ image_size[c] = MaxPayload
        /\ data[c] = Body(c, MaxPayload)
        /\ size_data[c] = BytesValue(Pack(MaxPayload))

\* C13: the accept loop never waits for a handler: whatever the handlers are
\* doing, a thread blocked in accept() takes a connection that is waiting,
\* and a thread at the loop test or about to call accept() goes on. So while
\* one handler waits for payload bytes, another connection is accepted and
\* its transfer read, saved and acknowledged before the first one ends.
C13_FireAndForget ==
    \A t \in Threads :
        /\ lpc[t] = "loop" => ENABLED run_server_loop(t)
        /\ lpc[t] = "accept" => ENABLED run_server_accept(t)
        /\ \A c \in Conns :
              (lpc[t] = "blocked" /\ OnPort(acceptSock[t]) /\ cst[c] = "queued") =>
                  ENABLED run_server_dispatch(t, c)

\* one handler has its header and waits for the rest of its payload, while
\* the other connection's transfer is saved, acknowledged and closed
C13_Witness ==
    \E c1, c2 \in Conns :
        /\ c1 # c2
        /\ cst[c1] = "payload" /\ Has(c1, "header") /\ consumed[c1] < Len(plan[c1])
        /\ cst[c2] = "done" /\ WellFormed(c2)
        /\ filepath[c2] \in DOMAIN files /\ files[filepath[c2]] = Payload(c2)
        /\ response[c2] = OK

\* C14: stop_server touches the accept loop only: a handler dispatched before
\* stop_server was called is not cancelled by it and its connection is not
\* closed by it (no step of stop_server changes anything of a dispatched
\* handler), and when the whole payload arrives that handler goes on to its
\* end, sending "OK" unless the send itself fails, also with the server
\* stopped.
C14_StopLeavesHandlers ==
    /\ [][(mainPc' # mainPc \/ stopCalls' # stopCalls \/ running' # running) =>
            \A c \in Conns : Handling(c) => ConnState(c)' = ConnState(c)]_vars
    /\ [](\A c \in Conns : Handling(c) => client_socket[c] = "open")
    /\ \A c \in Conns :
          (stopCalls = 0 /\ Handling(c) /\ WellFormed(c)) ~>
              (cst[c] = "done" /\ (response[c] = OK \/ Has(c, "send_failed")))

\* both handlers have written their payload in full
BothSaved(c1, c2) ==
    /\ c1 # c2
    /\ Has(c1, "file") /\ ~StorageFault(c1)
    /\ Has(c2, "file") /\ ~StorageFault(c2)

\* C15: two transfers saved at different HHMMSS values leave two files, each
\* holding its own payload; two transfers saved within the same second have
\* the same file name and leave one file, which holds in full the payload of
\* one of them (the one written last), however the two handlers' opens and
\* writes interleave.
C15_LastWriterWins ==
    \A c1, c2 \in Conns :
        (BothSaved(c1, c2) /\ DateOf(now) = data_dir) =>
            IF filepath[c1] # filepath[c2]
            THEN /\ files[filepath[c1]] = Payload(c1)
                 /\ files[filepath[c2]] = Payload(c2)
            ELSE /\ DOMAIN files = {filepath[c1]}
                 /\ files[filepath[c1]] \in {Payload(c1), Payload(c2)}

\* C16: every file is saved in the directory named for the date that is
\* current when the payload is saved; a payload saved after the date has
\* changed goes under the new date, not the date the server was built on.
C16_PartitionByDay ==
    \A c \in Conns :
        (Has(c, "open") /\ Alone(c)) => filepath[c][1] = DateOf(now)

\* thread t's accept() ends in this step without handing over a connection
AcceptFails(t) ==
    /\ lpc[t] \in {"accept", "blocked"}
    /\ lpc'[t] \notin {"accept", "blocked"}
    /\ \A c \in Conns : cst'[c] = "header" => cst[c] = "header"

\* C17: when accept() fails while the server has not been stopped, the accept
\* loop ends at that one failure: the thread never calls accept() again and
\* takes no further connection, and the failure changes nothing of the
\* handlers already dispatched, which can go on (a handler inside root.after
\* waits for the GUI thread, as it does with the accept loop running).
C17_NoRetry ==
    /\ [][\A t \in Threads :
            (AcceptFails(t) /\ running) =>
                /\ lpc'[t] = "accept_error"
                /\ \A c \in Conns : Handling(c) => ConnState(c)' = ConnState(c)]_vars
    /\ [][\A t \in Threads : lpc[t] = "accept_error" => lpc'[t] = "accept_error"]_vars
    /\ [](\A t \in Threads : lpc[t] = "accept_error" =>
            /\ \A c \in Conns : ~ENABLED run_server_dispatch(t, c)
            /\ \A c \in Conns : (Handling(c) /\ cst[c] # "calling") => ENABLED HandlerStep(c))

\* the accept loop has ended on a failed accept() with the server running;
\* one handler is still reading its payload and a later client waits in the
\* backlog of the socket, which nobody accepts from
C17_Witness ==
    \E c1, c2 \in Conns :
        /\ lpc[1] = "accept_error" /\ running /\ stopCalls = 0
        /\ cst[c1] = "payload" /\ client_socket[c1] = "open"
        /\ cst[c2] = "queued"

\* C18: with one start_server followed by stop_server, a call of accept()
\* that begins after stop_server has returned never waits for a connection
\* (it raises at once), so that a connection taken and a handler dispatched
\* after that can only come from a call of accept() begun earlier; this holds
\* also when stop_server ran before the socket existed.
C18_NoAcceptAfterStop ==
    /\ [][\A t \in Threads :
            (Stopped /\ lpc[t] = "accept") =>
                (lpc'[t] # "blocked" /\ \A c \in Conns : cst'[c] = "header" => cst[c] = "header")]_vars
    /\ [](\A t \in Threads : \A c \in Conns :
            (Stopped /\ lpc[t] # "blocked") => ~ENABLED run_server_dispatch(t, c))

\* stop_server has returned and closed the socket while the thread was
\* between the loop test and its call of accept(); a client that had
\* connected was reset
C18_Witness ==
    /\ Stopped /\ lpc[1] = "accept" /\ sock[1] = "closed"
    /\ \E c \in Conns : cst[c] = "reset"

\* C19: every handler ends, given a peer that delivers what it declared or
\* closes: a handler waits for nothing but its own recv, not for another
\* handler, the accept loop or the display.
C19_HandlersTerminate ==
    \A c \in Conns : Handling(c) ~> (cst[c] = "done")

\* the size the _receive_all in progress was called with
Requested(c) == IF cst[c] = "header" THEN 4 ELSE image_size[c]

\* C20: _receive_all never reads too much: what it has accumulated is never
\* longer than the size asked for, every recv takes at most the count that is
\* still missing, a handler consumes at most 4 + the declared size bytes of
\* its connection in all, and bytes sent beyond that never get into the
\* payload.
C20_NoOverRead ==
    /\ [](\A c \in Conns :
            /\ cst[c] \in {"header", "payload"} => Len(data[c]) <= Requested(c)
            /\ consumed[c] <= 4
                  \/ (image_size[c] # NoSize /\ consumed[c] <= 4 + image_size[c])
            /\ Has(c, "payload") =>
                  Len(data[c]) = image_size[c] /\ data[c] = Body(c, image_size[c]))
    /\ [][\A c \in Conns :
            cst[c] \in {"header", "payload"} =>
                consumed'[c] - consumed[c] <= Requested(c) - Len(data[c])]_vars

\* the client has sent more than it declared; its handler has its payload
\* and has left the bytes beyond it unread
C20_Witness ==
    \E c \in Conns :
        /\ Has(c, "payload") /\ image_size[c] >= 1
        /\ Len(plan[c]) > 4 + image_size[c]
        /\ consumed[c] = 4 + image_size[c]
        /\ cst[c] = "done"

====
